---- MODULE Spec2Model ----
(***************************************************************************)
(* A model of the asyncqueue / aiotaskqueue task queue:                    *)
(*   - the stream broker (asyncqueue/broker/redis.py) over a Redis stream  *)
(*     with one consumer group: XADD, XREADGROUP, XACK, XCLAIM, XAUTOCLAIM *)
(*   - the worker runtime (aiotaskqueue/worker.py): dispatcher, executor   *)
(*     fibers, heartbeat fiber, maintenance fiber, shutdown                *)
(*   - the in-memory broker (asyncqueue/broker/inmemory.py)                *)
(*   - the worker of asyncqueue/worker.py on the in-memory broker          *)
(*   - serialize, serialize_task and deserialize_task                      *)
(*     (asyncqueue/serialization/_serialization.py)                        *)
(*   - RedisBroker.__aenter__ of two instances on one stream and group     *)
(* Time is discrete; one Tick is one unit of the broker's idle clock.      *)
(***************************************************************************)
EXTENDS Integers, Sequences, FiniteSets, TLC

\* ---------------------------------------------------------------- bounds
\* number of executor fibers (AsyncWorker(concurrency=...))
Concurrency == 2
\* configuration.task.max_delivery_attempts
MaxDeliveryAttempts == 1
\* configuration.task.healthcheck_interval, in ticks
HealthcheckInterval == 1
\* configuration.task.timeout_interval, in ticks
TimeoutInterval == 2
\* RedisBrokerConfig.xread_count chosen for the model
XreadCount == 2
\* number of publisher enqueues explored
MaxEnqueues == 3
\* number of entries the stream may hold in the model
MaxStreamLen == 4
\* number of times run() is started (a failed worker is restarted by its host)
MaxRuns == 2
\* number of positional arguments of a task instance explored
MaxArgs == 3
\* number of times one RedisBroker instance is entered (async with broker)
MaxOpens == 2

\* InMemoryBroker(max_buffer_size=...) chosen for the model
MemBufferSize == 2

\* max_buffer_size of the fan-out channel: create_memory_object_stream() is
\* called without one, which is 0
max_buffer_size == 0

TaskNames == {"ok", "boom"}
Executors == 1..Concurrency
TaskIds == 1..MaxEnqueues
ThisConsumer == "worker-1"
Consumers == {"worker-1", "worker-2"}
NoMeta == "None"

VARIABLES
    \* ---- Redis stream, group and pending-entries list
    stream,        \* sequence of entries; entry id = position; entry = encoded record
    last_delivered,\* the group's last-delivered id (XREADGROUP ">")
    pel,           \* pending entries: id -> [owner, idle]
    published,     \* the TaskRecord each entry was enqueued with (history)
    reads,         \* the BrokerTasks RedisBroker.read() returned so far (history)
    \* ---- InMemoryBroker
    mem_stream,    \* buffer of the broker's memory object stream
    mem_reads,     \* the BrokerTasks InMemoryBroker.read() returned so far (history)
    \* ---- publisher
    enqueued,      \* number of TaskRecords published (their ids are 1..enqueued)
    \* ---- AsyncWorker
    stop_event,    \* self._stop_event
    active_tasks,  \* self._active_tasks: task id -> entry id (0: absent)
    dpc,           \* position of run(): the dispatch loop and shutdown
    batch,         \* rest of read_task.result() still to iterate (entry ids)
    head_acked,    \* the gate has acked the message the loop is at
    chan,          \* items sent onto the fan-out channel, not yet picked up
    chan_closed,   \* send.close() was called
    epc,           \* position of each _worker fiber
    etask,         \* the BrokerTask each _worker holds (entry id, 0: none)
    hpc,           \* position of _claim_pending_tasks
    hb_timer,      \* ticks since the heartbeat fiber went to sleep
    mpc,           \* position of _maintenance_claim_pending_records
    claimed,       \* messages of the last xautoclaim still to requeue
    maint_timer,   \* ticks since the maintenance fiber went to sleep
    runs,          \* number of run() calls so far
    \* ---- history
    gate_acks,     \* entries acked by the delivery-count gate
    scope_acks,    \* entries acked by ack_context on normal exit
    maint_acks,    \* entries acked by the maintenance loop
    calls,         \* entries whose callable was invoked, in invocation order
    at_stop,       \* entries whose callable was running when stop() was called
    sends_after_stop, \* sends of this run completed while stop_event was set
    \* ---- the AsyncWorker of asyncqueue/worker.py, on the InMemoryBroker
    aqw,           \* its state, one field per object or fiber position
    \* ---- serialization: one serialize_task / deserialize_task round trip
    ser,           \* the inputs, the TaskRecord and the deserialised result
    \* ---- RedisBroker.__aenter__ of the instances, and the group they open
    opn            \* the group and the position and locals of each open

vars == <<stream, last_delivered, pel, published, reads, mem_stream, mem_reads, enqueued, stop_event, active_tasks, dpc,
          batch, head_acked, chan, chan_closed, epc, etask, hpc, hb_timer, mpc,
          claimed, maint_timer, runs, gate_acks, scope_acks, maint_acks, calls,
          at_stop, sends_after_stop, aqw, ser, opn>>

brokerVars == <<stream, last_delivered, pel>>
memVars == <<mem_stream, mem_reads>>
workerVars == <<stop_event, active_tasks, dpc, batch, head_acked, chan, chan_closed,
                epc, etask, hpc, hb_timer, mpc, claimed, maint_timer, runs>>
historyVars == <<gate_acks, scope_acks, maint_acks, calls, at_stop, sends_after_stop>>

\* ------------------------------------------------------------ TaskRecord
TaskRecord(id, name, rc) == [id |-> id, task_name |-> name, requeue_count |-> rc]

\* msgspec.json.encode(task): the record as the JSON object's field list
encode(task) ==
    << <<"id", task.id>>, <<"task_name", task.task_name>>,
       <<"requeue_count", task.requeue_count>> >>

Field(wire, key) == (CHOOSE i \in 1..Len(wire) : wire[i][1] = key)

\* msgspec.json.decode(record[b"value"], type=TaskRecord)
decode(wire) ==
    [id |-> wire[Field(wire, "id")][2],
     task_name |-> wire[Field(wire, "task_name")][2],
     requeue_count |-> wire[Field(wire, "requeue_count")][2]]

\* BrokerTask(task=..., meta=...)
BrokerTask(task, meta) == [task |-> task, meta |-> meta]

\* the record a BrokerTask with meta.id = n carries
TaskOf(n) == decode(stream[n])

\* ------------------------------------------------------- Redis primitives
Min(a, b) == IF a < b THEN a ELSE b

\* XACK: drop ids from the pending-entries list
xack(p, ids) == [n \in (DOMAIN p) \ ids |-> p[n]]

\* XCLAIM ... min_idle_time=0: ids still pending go to the consumer, idle reset
xclaim(p, consumer, ids) ==
    [n \in DOMAIN p |-> IF n \in ids THEN [owner |-> consumer, idle |-> 0] ELSE p[n]]

\* XAUTOCLAIM: the pending ids whose idle time reached min_idle_time
AutoclaimIds(p, min_idle_time) == {n \in DOMAIN p : p[n].idle >= min_idle_time}

\* XREADGROUP with a count that skips the entry after the last delivered one
ReadIds_skipping(c) ==
    {n \in 1..Len(stream) : n > last_delivered + 1 /\ n <= last_delivered + c}

\* XREADGROUP ... ">" count=c: the next never-delivered ids
ReadIds(c) == {n \in 1..Len(stream) : n > last_delivered /\ n <= last_delivered + c}

RECURSIVE SetToSeq(_)
SetToSeq(S) ==
    IF S = {} THEN <<>>
    ELSE LET m == CHOOSE x \in S : \A y \in S : x <= y
         IN <<m>> \o SetToSeq(S \ {m})

\* ----------------------------------------------------------- serialization
\* values a task is called with: a Python type and the value's text
Values ==
    {[type |-> "int", repr |-> "7"], [type |-> "int", repr |-> "2"],
     [type |-> "str", repr |-> "7"], [type |-> "T", repr |-> "1"]}

\* the SerializationBackend implementations: a codec for the domain type T, a
\* JSON codec for the builtin types, and a codec that takes any object
BackendIds == {"custom", "json", "pickle"}

\* SerializationBackend.serializable(value)
serializable(backend, value) ==
    CASE backend = "custom" -> value.type = "T"
      [] backend = "json" -> value.type \in {"int", "str"}
      [] backend = "pickle" -> TRUE

\* SerializationBackend.serialize(value): the bytes, or the backend raising on
\* a value it cannot encode
backend_serialize(backend, value) ==
    IF ~serializable(backend, value) THEN <<backend, "raise", "">>
    ELSE CASE backend = "custom" -> <<"custom", "T", value.repr>>
           [] backend = "json" ->
                <<"json", IF value.type = "int" THEN "number" ELSE "string", value.repr>>
           [] backend = "pickle" -> <<"pickle", value.type, value.repr>>

DecodeError == [type |-> "DecodeError", repr |-> ""]

\* SerializationBackend.deserialize(value, type): the JSON codec validates the
\* decoded value against the expected type
backend_deserialize(backend, bytes, type) ==
    CASE backend = "custom" -> [type |-> "T", repr |-> bytes[3]]
      [] backend = "json" ->
           LET decoded == [type |-> IF bytes[2] = "number" THEN "int" ELSE "str",
                           repr |-> bytes[3]]
           IN IF decoded.type = type THEN decoded ELSE DecodeError
      [] backend = "pickle" -> [type |-> bytes[2], repr |-> bytes[3]]

\* serialize with the loop taking the last backend that claims the value
RECURSIVE serialize_last_wins(_, _, _)
serialize_last_wins(value, default_backend, backends) ==
    IF backends = <<>>
    THEN <<default_backend, backend_serialize(default_backend, value)>>
    ELSE LET last == backends[Len(backends)]
         IN IF serializable(last, value)
            THEN <<last, backend_serialize(last, value)>>
            ELSE serialize_last_wins(value, default_backend,
                                     SubSeq(backends, 1, Len(backends) - 1))

\* serialize(value, default_backend, backends): backends is the registry in
\* insertion order (backends.values())
RECURSIVE serialize(_, _, _)
serialize(value, default_backend, backends) ==
    IF backends = <<>>
    THEN <<default_backend, backend_serialize(default_backend, value)>>
    ELSE IF serializable(Head(backends), value)
         THEN <<Head(backends), backend_serialize(Head(backends), value)>>
         ELSE serialize(value, default_backend, Tail(backends))

\* serialize_task: TaskRecord(id, task_name, enqueue_time, args, kwargs); a
\* backend raising inside serialize leaves serialize_task with that exception
serialize_task(task, default_backend, serialization_backends) ==
    [id |-> 1,
     task_name |-> task.task.name,
     requeue_count |-> 0,
     args |-> [i \in 1..Len(task.args) |->
                 serialize(task.args[i], default_backend, serialization_backends)],
     kwargs |-> [key \in DOMAIN task.kwargs |->
                   serialize(task.kwargs[key], default_backend, serialization_backends)]]

serialize_task_raises(record) ==
    \/ \E i \in DOMAIN record.args : record.args[i][2][2] = "raise"
    \/ \E key \in DOMAIN record.kwargs : record.kwargs[key][2][2] = "raise"

\* zip(task.args, task_definition.arg_types, strict=False): as many pairs as
\* the shorter of the two
zip_len(args, arg_types) == Min(Len(args), Len(arg_types))

\* deserialize_task: (args, kwargs), or the exception of a lookup
\* (serialization_backends[backend_id], kwarg_types[key]) or of a backend
deserialize_task(task_definition, task, serialization_backends) ==
    LET n == zip_len(task.args, task_definition.arg_types)
        registry == {serialization_backends[i] : i \in DOMAIN serialization_backends}
        key_error ==
            \/ \E i \in 1..n : task.args[i][1] \notin registry
            \/ \E key \in DOMAIN task.kwargs :
                  \/ task.kwargs[key][1] \notin registry
                  \/ key \notin DOMAIN task_definition.kwarg_types
        args == [i \in 1..n |->
                   backend_deserialize(task.args[i][1], task.args[i][2],
                                       task_definition.arg_types[i])]
        kwargs == [key \in DOMAIN task.kwargs |->
                     backend_deserialize(task.kwargs[key][1], task.kwargs[key][2],
                                         task_definition.kwarg_types[key])]
    IN IF key_error THEN [raised |-> "KeyError", args |-> <<>>, kwargs |-> <<>>]
       ELSE IF \/ \E i \in DOMAIN args : args[i] = DecodeError
               \/ \E key \in DOMAIN kwargs : kwargs[key] = DecodeError
       THEN [raised |-> "DecodeError", args |-> <<>>, kwargs |-> <<>>]
       ELSE [raised |-> "no", args |-> args, kwargs |-> kwargs]

\* the TaskDefinitions registered: add(a: int, b: str) and use(a: T, b: int)
TaskDefinitions ==
    {[name |-> "add", arg_types |-> <<"int", "str">>,
      kwarg_types |-> [a |-> "int", b |-> "str"]],
     [name |-> "use", arg_types |-> <<"T", "int">>,
      kwarg_types |-> [a |-> "T", b |-> "int"]]}

\* the TaskInstances of a definition: positional values of the declared types,
\* possibly followed by further positional values, and keyword values of the
\* declared types
TaskInstances(definition) ==
    LET positional ==
            UNION {{a \in [1..n -> Values] :
                      \A i \in 1..n : i <= Len(definition.arg_types) =>
                                          a[i].type = definition.arg_types[i]}
                   : n \in 0..MaxArgs}
        keyword ==
            UNION {{k \in [S -> Values] :
                      \A key \in S : k[key].type = definition.kwarg_types[key]}
                   : S \in SUBSET (DOMAIN definition.kwarg_types)}
    IN {[task |-> definition, args |-> a, kwargs |-> k] : a \in positional, k \in keyword}

\* the registries: every insertion order of every set of backends
Registries ==
    {r \in UNION {[1..n -> BackendIds] : n \in 0..Cardinality(BackendIds)} :
        \A i, j \in DOMAIN r : i # j => r[i] # r[j]}

NoRecord == [id |-> 0, task_name |-> "", requeue_count |-> 0, args |-> <<>>, kwargs |-> <<>>]
NoResult == [raised |-> "", args |-> <<>>, kwargs |-> <<>>]

\* no round trip under way
NoRoundTrip ==
    [pc |-> "idle", task |-> [task |-> CHOOSE d \in TaskDefinitions : d.name = "add",
                              args |-> <<>>, kwargs |-> <<>>],
     default_backend |-> "json", backends |-> <<>>,
     record |-> NoRecord, result |-> NoResult]

\* ------------------------------------------------------ RedisBroker.__aenter__
\* no instance was entered yet: the stream key and the group do not exist
NotOpened ==
    [mkstream |-> FALSE, group |-> FALSE, consumers |-> {},
     pc |-> [c \in Consumers |-> "idle"],
     stream_exists |-> [c \in Consumers |-> FALSE],
     group_exists |-> [c \in Consumers |-> FALSE],
     is_initialized |-> [c \in Consumers |-> FALSE],
     raised |-> [c \in Consumers |-> FALSE],
     opens |-> [c \in Consumers |-> 0],
     broker_calls |-> [c \in Consumers |-> 0]]

\* the worker's broker has been entered: the group exists on an empty stream
\* and the worker's consumer is registered
Opened ==
    [NotOpened EXCEPT !.mkstream = TRUE, !.group = TRUE,
                      !.consumers = {ThisConsumer},
                      !.is_initialized[ThisConsumer] = TRUE,
                      !.opens[ThisConsumer] = 1,
                      !.broker_calls[ThisConsumer] = 3]

\* ------------------------------------------------------------------ Init
\* the brokers and the workers right after construction
InitState ==
    /\ stream = <<>>
    /\ last_delivered = 0
    /\ pel = <<>>
    /\ published = <<>>
    /\ reads = <<>>
    /\ mem_stream = <<>>
    /\ mem_reads = <<>>
    /\ enqueued = 0
    /\ stop_event = FALSE
    /\ active_tasks = [i \in TaskIds |-> 0]
    /\ dpc = "wait"
    /\ batch = <<>>
    /\ head_acked = FALSE
    /\ chan = <<>>
    /\ chan_closed = FALSE
    /\ epc = [e \in Executors |-> "recv"]
    /\ etask = [e \in Executors |-> 0]
    /\ hpc = "alive"
    /\ hb_timer = HealthcheckInterval
    /\ mpc = "sleep"
    /\ maint_timer = TimeoutInterval
    /\ claimed = <<>>
    /\ runs = 1
    /\ gate_acks = {}
    /\ scope_acks = {}
    /\ maint_acks = {}
    /\ calls = <<>>
    /\ at_stop = {}
    /\ sends_after_stop = 0
    /\ aqw = [stop_event |-> FALSE, closed |-> FALSE, pc |-> "wait",
              read_task |-> "pending", messages |-> <<>>, chan |-> <<>>,
              epc |-> "recv", hpc |-> "alive", calls |-> <<>>]

Init ==
    /\ InitState
    /\ ser = NoRoundTrip
    /\ opn = Opened

\* ------------------------------------------------------------- RedisBroker
\* RedisBroker.enqueue: xadd(stream_name, {"value": msgspec.json.encode(task)})
RedisBroker_enqueue(task) ==
    /\ stream' = Append(stream, encode(task))
    /\ published' = Append(published, task)

\* RedisBroker.read: xreadgroup(group, consumer, {stream: ">"}, count=xread_count);
\* every entry returned is decoded into BrokerTask(task, meta=RedisMeta(id))
RedisBroker_read(consumer) ==
    LET ids == ReadIds(XreadCount)
    IN /\ pel' = [n \in (DOMAIN pel) \cup ids |->
                     IF n \in ids THEN [owner |-> consumer, idle |-> 0] ELSE pel[n]]
       /\ last_delivered' = IF ids = {} THEN last_delivered
                            ELSE CHOOSE m \in ids : \A n \in ids : n <= m
       /\ reads' = reads \o [k \in 1..Cardinality(ids) |->
                               BrokerTask(decode(stream[SetToSeq(ids)[k]]),
                                          SetToSeq(ids)[k])]

\* --------------------------------------------------------------- publisher
\* RedisBroker.enqueue of a fresh record (serialize_task: new uuid, requeue_count 0)
enqueue(name) ==
    /\ enqueued < MaxEnqueues
    /\ Len(stream) < MaxStreamLen
    /\ RedisBroker_enqueue(TaskRecord(enqueued + 1, name, 0))
    /\ enqueued' = enqueued + 1
    /\ UNCHANGED <<last_delivered, pel, workerVars, historyVars>>
    /\ UNCHANGED memVars
    /\ UNCHANGED aqw
    /\ UNCHANGED ser
    /\ UNCHANGED opn
    /\ UNCHANGED reads

\* --------------------------------------------------- AsyncWorker.run: dispatch
\* executors parked in recv.receive()
WaitingReceivers == {e \in Executors : epc[e] = "recv"}

\* MemoryObjectSendStream.send: completes when a parked receiver can take the
\* item, or when the buffer has room
send_ready_buffered == Len(chan) < Cardinality(WaitingReceivers) + 1
send_ready == Len(chan) < Cardinality(WaitingReceivers) + max_buffer_size

\* the delivery-count gate of the dispatch loop
gate(task) == task.requeue_count >= MaxDeliveryAttempts

\* _shutdown_tasks, finally: self.stop(); send.close(); then wait for the fibers
EnterShutdown ==
    /\ stop_event' = TRUE
    /\ chan_closed' = TRUE
    /\ dpc' = "join"

\* broker.read() completed (asyncio.wait returns with read_task done, whether or
\* not stop_task is done as well); XREADGROUP marks the entries pending
run_read ==
    /\ dpc = "wait"
    /\ RedisBroker_read(ThisConsumer)
    /\ batch' = SetToSeq(ReadIds(XreadCount))
    /\ dpc' = IF ReadIds(XreadCount) = {} THEN "yield" ELSE "batch"
    /\ UNCHANGED <<stream, enqueued, stop_event, active_tasks, head_acked, chan,
                   chan_closed, epc, etask, hpc, hb_timer, mpc, claimed,
                   maint_timer, runs, historyVars>>
    /\ UNCHANGED memVars
    /\ UNCHANGED aqw
    /\ UNCHANGED ser
    /\ UNCHANGED opn
    /\ UNCHANGED published

\* asyncio.wait returned because stop_task is done and read_task is not:
\* read_task.cancel(); break
run_stop_wins ==
    /\ dpc = "wait"
    /\ stop_event
    /\ EnterShutdown
    /\ UNCHANGED <<brokerVars, enqueued, active_tasks, batch, head_acked, chan,
                   epc, etask, hpc, hb_timer, mpc, claimed, maint_timer, runs,
                   historyVars>>
    /\ UNCHANGED memVars
    /\ UNCHANGED aqw
    /\ UNCHANGED ser
    /\ UNCHANGED opn
    /\ UNCHANGED published
    /\ UNCHANGED reads

\* if requeue_count >= max_delivery_attempts: await self._broker.ack(message)
run_ack ==
    /\ dpc = "batch"
    /\ batch # <<>>
    /\ gate(TaskOf(Head(batch)))
    /\ ~head_acked
    /\ pel' = xack(pel, {Head(batch)})
    /\ gate_acks' = gate_acks \cup {Head(batch)}
    /\ head_acked' = TRUE
    /\ UNCHANGED <<stream, last_delivered, enqueued, stop_event, active_tasks, dpc,
                   batch, chan, chan_closed, epc, etask, hpc, hb_timer, mpc,
                   claimed, maint_timer, runs, scope_acks, maint_acks, calls,
                   at_stop, sends_after_stop>>
    /\ UNCHANGED memVars
    /\ UNCHANGED aqw
    /\ UNCHANGED ser
    /\ UNCHANGED opn
    /\ UNCHANGED published
    /\ UNCHANGED reads

\* await send.send(message), the statement after the gate's if
run_send ==
    /\ dpc = "batch"
    /\ batch # <<>>
    /\ gate(TaskOf(Head(batch))) => head_acked
    /\ ~chan_closed
    /\ send_ready
    /\ chan' = Append(chan, Head(batch))
    /\ batch' = Tail(batch)
    /\ head_acked' = FALSE
    /\ dpc' = IF Tail(batch) = <<>> THEN "yield" ELSE "batch"
    /\ sends_after_stop' = IF stop_event THEN sends_after_stop + 1 ELSE sends_after_stop
    /\ UNCHANGED <<brokerVars, enqueued, stop_event, active_tasks, chan_closed, epc,
                   etask, hpc, hb_timer, mpc, claimed, maint_timer, runs,
                   gate_acks, scope_acks, maint_acks, calls, at_stop>>
    /\ UNCHANGED memVars
    /\ UNCHANGED aqw
    /\ UNCHANGED ser
    /\ UNCHANGED opn
    /\ UNCHANGED published
    /\ UNCHANGED reads

\* the loop's exit test after a batch: if self._stop_event.is_set(): break
loop_exit_test_skipped == FALSE
loop_exit_test == stop_event

\* await asyncio.sleep(0); if self._stop_event.is_set(): break
run_yield ==
    /\ dpc = "yield"
    /\ IF loop_exit_test
       THEN EnterShutdown
       ELSE /\ dpc' = "wait"
            /\ UNCHANGED <<stop_event, chan_closed>>
    /\ UNCHANGED <<brokerVars, enqueued, active_tasks, batch, head_acked, chan, epc,
                   etask, hpc, hb_timer, mpc, claimed, maint_timer, runs,
                   historyVars>>
    /\ UNCHANGED memVars
    /\ UNCHANGED aqw
    /\ UNCHANGED ser
    /\ UNCHANGED opn
    /\ UNCHANGED published
    /\ UNCHANGED reads

\* AsyncWorker.stop(), also the SIGTERM / SIGINT handler
stop ==
    /\ ~stop_event
    /\ dpc \in {"wait", "batch", "yield"}
    /\ stop_event' = TRUE
    /\ at_stop' = {etask[e] : e \in {x \in Executors : epc[x] = "run"}}
    /\ UNCHANGED <<brokerVars, enqueued, active_tasks, dpc, batch, head_acked, chan,
                   chan_closed, epc, etask, hpc, hb_timer, mpc, claimed,
                   maint_timer, runs, gate_acks, scope_acks, maint_acks, calls,
                   sends_after_stop>>
    /\ UNCHANGED memVars
    /\ UNCHANGED aqw
    /\ UNCHANGED ser
    /\ UNCHANGED opn
    /\ UNCHANGED published
    /\ UNCHANGED reads

FibersFinished ==
    /\ \A e \in Executors : epc[e] = "done"
    /\ hpc = "done"
    /\ mpc = "done"

\* asyncio.wait(tasks) returned; the TaskGroup, send and the broker scopes exit
run_return ==
    /\ dpc = "join"
    /\ FibersFinished
    /\ dpc' = "returned"
    /\ UNCHANGED <<brokerVars, enqueued, stop_event, active_tasks, batch, head_acked,
                   chan, chan_closed, epc, etask, hpc, hb_timer, mpc, claimed,
                   maint_timer, runs, historyVars>>
    /\ UNCHANGED memVars
    /\ UNCHANGED aqw
    /\ UNCHANGED ser
    /\ UNCHANGED opn
    /\ UNCHANGED published
    /\ UNCHANGED reads

\* ------------------------------------------------------ AsyncWorker._worker
\* recv yields the next item: self._active_tasks[id] = broker_task, then the ack
\* scope is entered and _call_task_fn starts
worker_receive(e) ==
    /\ epc[e] = "recv"
    /\ chan # <<>>
    /\ LET n == Head(chan)
       IN /\ etask' = [etask EXCEPT ![e] = n]
          /\ active_tasks' = [active_tasks EXCEPT ![TaskOf(n).id] = n]
          /\ calls' = Append(calls, n)
    /\ chan' = Tail(chan)
    /\ epc' = [epc EXCEPT ![e] = "run"]
    /\ UNCHANGED <<brokerVars, enqueued, stop_event, dpc, batch, head_acked,
                   chan_closed, hpc, hb_timer, mpc, claimed, maint_timer, runs,
                   gate_acks, scope_acks, maint_acks, at_stop, sends_after_stop>>
    /\ UNCHANGED memVars
    /\ UNCHANGED aqw
    /\ UNCHANGED ser
    /\ UNCHANGED opn
    /\ UNCHANGED published
    /\ UNCHANGED reads

\* async for ends: the channel is closed and empty
worker_closed(e) ==
    /\ epc[e] = "recv"
    /\ chan = <<>>
    /\ chan_closed
    /\ epc' = [epc EXCEPT ![e] = "done"]
    /\ UNCHANGED <<brokerVars, enqueued, stop_event, active_tasks, dpc, batch,
                   head_acked, chan, chan_closed, etask, hpc, hb_timer, mpc,
                   claimed, maint_timer, runs, historyVars>>
    /\ UNCHANGED memVars
    /\ UNCHANGED aqw
    /\ UNCHANGED ser
    /\ UNCHANGED opn
    /\ UNCHANGED published
    /\ UNCHANGED reads

\* RedisBroker.ack_context, the statements after the yield: the body finished
\* normally, xack is sent
ack_context_exit(e) ==
    /\ pel' = xack(pel, {etask[e]})
    /\ scope_acks' = scope_acks \cup {etask[e]}

\* the callable returned: the ack scope exits normally
worker_return(e) ==
    /\ epc[e] = "run"
    /\ TaskOf(etask[e]).task_name = "ok"
    /\ ack_context_exit(e)
    /\ epc' = [epc EXCEPT ![e] = "acked"]
    /\ UNCHANGED <<stream, last_delivered, enqueued, stop_event, active_tasks, dpc,
                   batch, head_acked, chan, chan_closed, etask, hpc, hb_timer, mpc,
                   claimed, maint_timer, runs, gate_acks, maint_acks, calls,
                   at_stop, sends_after_stop>>
    /\ UNCHANGED memVars
    /\ UNCHANGED aqw
    /\ UNCHANGED ser
    /\ UNCHANGED opn
    /\ UNCHANGED published
    /\ UNCHANGED reads

\* xack answered: self._active_tasks.pop(id, None); back to the async for
worker_pop(e) ==
    /\ epc[e] = "acked"
    /\ active_tasks' = [active_tasks EXCEPT ![TaskOf(etask[e]).id] = 0]
    /\ etask' = [etask EXCEPT ![e] = 0]
    /\ epc' = [epc EXCEPT ![e] = "recv"]
    /\ UNCHANGED <<brokerVars, enqueued, stop_event, dpc, batch, head_acked, chan,
                   chan_closed, hpc, hb_timer, mpc, claimed, maint_timer, runs,
                   historyVars>>
    /\ UNCHANGED memVars
    /\ UNCHANGED aqw
    /\ UNCHANGED ser
    /\ UNCHANGED opn
    /\ UNCHANGED published
    /\ UNCHANGED reads

\* asyncio.TaskGroup when the child fiber `failed` ends with an exception: every
\* other child and the parent are cancelled at the await they are in; the
\* parent runs _shutdown_tasks' finally and run() raises the ExceptionGroup.
\* Cancelling a fiber inside asyncio.wait leaves its sleep_task running; a
\* maintenance fiber cancelled inside its for loop has no sleep_task
TaskGroupAbort(failed) ==
    /\ epc' = [e \in Executors |->
                 IF e = failed THEN "failed"
                 ELSE IF epc[e] = "run"
                      THEN (IF etask[e] \in at_stop THEN "cancelled_drain" ELSE "cancelled_run")
                 ELSE IF epc[e] = "done" THEN "done"
                 ELSE "cancelled"]
    /\ hpc' = IF hpc = "done" THEN "done" ELSE "cancelled"
    /\ mpc' = IF mpc = "done" THEN "done" ELSE "cancelled"
    /\ hb_timer' = hb_timer
    /\ maint_timer' = IF mpc \in {"requeue", "xack"} THEN TimeoutInterval ELSE maint_timer
    /\ chan' = <<>>
    /\ stop_event' = TRUE
    /\ chan_closed' = TRUE
    /\ dpc' = "raised"

\* the body of the ack scope raised (lookup, deserialize_task or the callable):
\* ack_context does not ack, the exception leaves _worker
worker_raise(e) ==
    /\ epc[e] = "run"
    /\ TaskOf(etask[e]).task_name = "boom"
    /\ TaskGroupAbort(e)
    /\ UNCHANGED <<brokerVars, enqueued, active_tasks, batch, head_acked, etask,
                   claimed, runs, historyVars>>
    /\ UNCHANGED memVars
    /\ UNCHANGED aqw
    /\ UNCHANGED ser
    /\ UNCHANGED opn
    /\ UNCHANGED published
    /\ UNCHANGED reads

\* ------------------------------------------- AsyncWorker._claim_pending_tasks
\* sleep_task of _claim_pending_tasks: created after each pass of the loop, done
\* when healthcheck_interval has elapsed; nothing cancels it
heartbeat_sleep_task_pending == hb_timer < HealthcheckInterval

ActiveValues == {active_tasks[i] : i \in TaskIds} \ {0}

\* RedisBroker.tasks_healthcheck(*tasks): XCLAIM with min_idle_time=0
tasks_healthcheck(ids) == xclaim(pel, ThisConsumer, ids)

\* one pass of the loop: healthcheck if there are active tasks, then sleep
claim_pending_tasks ==
    /\ hpc = "alive"
    /\ ~stop_event
    /\ hb_timer = HealthcheckInterval
    /\ pel' = IF ActiveValues # {} THEN tasks_healthcheck(ActiveValues) ELSE pel
    /\ hb_timer' = 0
    /\ UNCHANGED <<stream, last_delivered, enqueued, stop_event, active_tasks, dpc,
                   batch, head_acked, chan, chan_closed, epc, etask, hpc, mpc,
                   claimed, maint_timer, runs, historyVars>>
    /\ UNCHANGED memVars
    /\ UNCHANGED aqw
    /\ UNCHANGED ser
    /\ UNCHANGED opn
    /\ UNCHANGED published
    /\ UNCHANGED reads

\* if stop.is_set(): return
claim_pending_tasks_exit ==
    /\ hpc = "alive"
    /\ stop_event
    /\ hpc' = "done"
    /\ UNCHANGED <<brokerVars, enqueued, stop_event, active_tasks, dpc, batch,
                   head_acked, chan, chan_closed, epc, etask, hb_timer, mpc, claimed,
                   maint_timer, runs, historyVars>>
    /\ UNCHANGED memVars
    /\ UNCHANGED aqw
    /\ UNCHANGED ser
    /\ UNCHANGED opn
    /\ UNCHANGED published
    /\ UNCHANGED reads

\* ------------------------- RedisBroker._maintenance_claim_pending_records
\* sleep_task of the maintenance loop: created after the for loop, done when
\* timeout_interval has elapsed; nothing cancels it
maintenance_sleep_task_pending ==
    /\ mpc \notin {"requeue", "xack"}
    /\ maint_timer < TimeoutInterval

\* xautoclaim(min_idle_time=timeout_interval): the entries go to this consumer
maintenance_autoclaim ==
    /\ mpc = "sleep"
    /\ ~stop_event
    /\ maint_timer = TimeoutInterval
    /\ LET ids == AutoclaimIds(pel, TimeoutInterval)
       IN /\ pel' = xclaim(pel, ThisConsumer, ids)
          /\ claimed' = SetToSeq(ids)
          /\ mpc' = IF ids = {} THEN "sleep" ELSE "requeue"
    /\ maint_timer' = 0
    /\ UNCHANGED <<stream, last_delivered, enqueued, stop_event, active_tasks, dpc,
                   batch, head_acked, chan, chan_closed, epc, etask, hpc, hb_timer,
                   runs, historyVars>>
    /\ UNCHANGED memVars
    /\ UNCHANGED aqw
    /\ UNCHANGED ser
    /\ UNCHANGED opn
    /\ UNCHANGED published
    /\ UNCHANGED reads

\* task.requeue_count += 1
requeued(task) == [task EXCEPT !.requeue_count = task.requeue_count + 1]

\* a reclamation that goes on to the ack without publishing the replacement
maintenance_requeue_skipped ==
    /\ mpc = "requeue"
    /\ mpc' = "xack"
    /\ UNCHANGED <<brokerVars, published, enqueued, stop_event, active_tasks, dpc,
                   batch, head_acked, chan, chan_closed, epc, etask, hpc, hb_timer,
                   claimed, maint_timer, runs, historyVars>>
    /\ UNCHANGED memVars
    /\ UNCHANGED aqw
    /\ UNCHANGED ser
    /\ UNCHANGED opn
    /\ UNCHANGED reads

\* decode, task.requeue_count += 1, await self.enqueue(task)
maintenance_requeue ==
    /\ mpc = "requeue"
    /\ Len(stream) < MaxStreamLen
    /\ RedisBroker_enqueue(requeued(decode(stream[Head(claimed)])))
    /\ mpc' = "xack"
    /\ UNCHANGED <<last_delivered, pel, enqueued, stop_event, active_tasks, dpc,
                   batch, head_acked, chan, chan_closed, epc, etask, hpc, hb_timer,
                   claimed, maint_timer, runs, historyVars>>
    /\ UNCHANGED memVars
    /\ UNCHANGED aqw
    /\ UNCHANGED ser
    /\ UNCHANGED opn
    /\ UNCHANGED reads

\* await self._redis.xack(stream, group, record_id); next message or sleep
maintenance_xack ==
    /\ mpc = "xack"
    /\ pel' = xack(pel, {Head(claimed)})
    /\ maint_acks' = maint_acks \cup {Head(claimed)}
    /\ claimed' = Tail(claimed)
    /\ mpc' = IF Tail(claimed) = <<>> THEN "sleep" ELSE "requeue"
    /\ UNCHANGED <<stream, last_delivered, enqueued, stop_event, active_tasks, dpc,
                   batch, head_acked, chan, chan_closed, epc, etask, hpc, hb_timer,
                   maint_timer, runs, gate_acks, scope_acks, calls,
                   at_stop, sends_after_stop>>
    /\ UNCHANGED memVars
    /\ UNCHANGED aqw
    /\ UNCHANGED ser
    /\ UNCHANGED opn
    /\ UNCHANGED published
    /\ UNCHANGED reads

\* if stop.is_set(): return
maintenance_exit ==
    /\ mpc = "sleep"
    /\ stop_event
    /\ mpc' = "done"
    /\ UNCHANGED <<brokerVars, enqueued, stop_event, active_tasks, dpc, batch,
                   head_acked, chan, chan_closed, epc, etask, hpc, hb_timer,
                   claimed, maint_timer, runs, historyVars>>
    /\ UNCHANGED memVars
    /\ UNCHANGED aqw
    /\ UNCHANGED ser
    /\ UNCHANGED opn
    /\ UNCHANGED published
    /\ UNCHANGED reads

\* --------------------------------------------------------------------- time
\* a timer that ran out fires before the clock moves on
HeartbeatDue == hpc = "alive" /\ ~stop_event /\ hb_timer = HealthcheckInterval
MaintenanceDue ==
    \/ mpc = "sleep" /\ ~stop_event /\ maint_timer = TimeoutInterval
    \/ mpc = "xack"
    \/ mpc = "requeue" /\ Len(stream) < MaxStreamLen

\* a fiber that is ready to run takes its step before the clock moves on: the
\* clock advances only while every fiber waits for a callable, for a free
\* executor, for new entries or for a timer
FiberReady ==
    \/ dpc = "yield"
    \/ dpc = "wait" /\ (stop_event \/ ReadIds(XreadCount) # {})
    \/ dpc = "batch" /\ gate(TaskOf(Head(batch))) /\ ~head_acked
    \/ dpc = "batch" /\ send_ready
    \/ dpc = "join" /\ FibersFinished
    \/ \E e \in Executors : epc[e] = "recv" /\ (chan # <<>> \/ chan_closed)
    \/ \E e \in Executors : epc[e] = "acked"
    \/ hpc = "alive" /\ stop_event
    \/ mpc = "sleep" /\ stop_event

\* one unit of time: the idle time of every pending entry and the sleeps advance
Tick ==
    /\ ~HeartbeatDue
    /\ ~MaintenanceDue
    /\ ~FiberReady
    /\ pel' = [n \in DOMAIN pel |->
                 [pel[n] EXCEPT !.idle = Min(pel[n].idle + 1, TimeoutInterval)]]
    /\ hb_timer' = Min(hb_timer + 1, HealthcheckInterval)
    /\ maint_timer' = Min(maint_timer + 1, TimeoutInterval)
    /\ UNCHANGED <<stream, last_delivered, enqueued, stop_event, active_tasks, dpc,
                   batch, head_acked, chan, chan_closed, epc, etask, hpc, mpc,
                   claimed, runs, historyVars>>
    /\ UNCHANGED memVars
    /\ UNCHANGED aqw
    /\ UNCHANGED ser
    /\ UNCHANGED opn
    /\ UNCHANGED published
    /\ UNCHANGED reads

\* ------------------------------------------------------------------ restart
\* the host starts a new AsyncWorker on the same stream after run() ended
run_start ==
    /\ dpc \in {"returned", "raised"}
    /\ runs < MaxRuns
    /\ runs' = runs + 1
    /\ stop_event' = FALSE
    /\ active_tasks' = [i \in TaskIds |-> 0]
    /\ dpc' = "wait"
    /\ batch' = <<>>
    /\ head_acked' = FALSE
    /\ chan' = <<>>
    /\ chan_closed' = FALSE
    /\ epc' = [e \in Executors |-> "recv"]
    /\ etask' = [e \in Executors |-> 0]
    /\ hpc' = "alive"
    /\ hb_timer' = HealthcheckInterval
    /\ mpc' = "sleep"
    /\ maint_timer' = TimeoutInterval
    /\ claimed' = <<>>
    /\ sends_after_stop' = 0
    /\ UNCHANGED <<brokerVars, enqueued, gate_acks, scope_acks, maint_acks, calls, at_stop>>
    /\ UNCHANGED memVars
    /\ UNCHANGED aqw
    /\ UNCHANGED ser
    /\ UNCHANGED opn
    /\ UNCHANGED published
    /\ UNCHANGED reads

\* --------------------------------------------------------------------- Next
Next ==
    \/ \E name \in TaskNames : enqueue(name)
    \/ run_read
    \/ run_stop_wins
    \/ run_ack
    \/ run_send
    \/ run_yield
    \/ stop
    \/ run_return
    \/ \E e \in Executors : worker_receive(e)
    \/ \E e \in Executors : worker_closed(e)
    \/ \E e \in Executors : worker_return(e)
    \/ \E e \in Executors : worker_pop(e)
    \/ \E e \in Executors : worker_raise(e)
    \/ claim_pending_tasks
    \/ claim_pending_tasks_exit
    \/ maintenance_autoclaim
    \/ maintenance_requeue
    \/ maintenance_xack
    \/ maintenance_exit
    \/ Tick
    \/ run_start

Spec == Init /\ [][Next]_vars

\* ---------------------------------------------------------- the brokers alone
\* InMemoryBroker.enqueue: await self._send.send(BrokerTask(task=task, meta=None));
\* the send returns once the buffer has room
mem_enqueue(name) ==
    /\ enqueued < MaxEnqueues
    /\ Len(mem_stream) < MemBufferSize
    /\ mem_stream' = Append(mem_stream, BrokerTask(TaskRecord(enqueued + 1, name, 0), NoMeta))
    /\ enqueued' = enqueued + 1
    /\ UNCHANGED <<brokerVars, published, reads, mem_reads, workerVars, historyVars>>
    /\ UNCHANGED aqw
    /\ UNCHANGED ser
    /\ UNCHANGED opn

\* a read that takes the item sent last
InMemoryBroker_read_newest ==
    /\ mem_stream # <<>>
    /\ mem_reads' = Append(mem_reads, mem_stream[Len(mem_stream)])
    /\ mem_stream' = SubSeq(mem_stream, 1, Len(mem_stream) - 1)

\* InMemoryBroker.read: return (await self._recv.receive(),): the oldest item
\* leaves the broker's memory object stream
InMemoryBroker_read ==
    /\ mem_stream # <<>>
    /\ mem_reads' = Append(mem_reads, Head(mem_stream))
    /\ mem_stream' = Tail(mem_stream)

\* read() called by a consumer of the in-memory broker
mem_read ==
    /\ InMemoryBroker_read
    /\ UNCHANGED <<brokerVars, published, reads, enqueued, workerVars, historyVars>>
    /\ UNCHANGED aqw
    /\ UNCHANGED ser
    /\ UNCHANGED opn

\* RedisBroker.read called by a consumer of the group
redis_read(consumer) ==
    /\ ReadIds(XreadCount) # {}
    /\ RedisBroker_read(consumer)
    /\ UNCHANGED <<stream, published, memVars, enqueued, workerVars, historyVars>>
    /\ UNCHANGED aqw
    /\ UNCHANGED ser
    /\ UNCHANGED opn

BrokerNext ==
    \/ \E name \in TaskNames : enqueue(name)
    \/ \E name \in TaskNames : mem_enqueue(name)
    \/ mem_read
    \/ \E c \in Consumers : redis_read(c)

\* enqueue and read on both brokers, read() being called again and again
BrokerSpec ==
    /\ Init
    /\ [][BrokerNext]_vars
    /\ WF_vars(mem_read)
    /\ WF_vars(\E c \in Consumers : redis_read(c))

\* ------------- the AsyncWorker of asyncqueue/worker.py on the InMemoryBroker
\* concurrency=1: one _worker fiber. InMemoryBroker.run_worker_maintenance_tasks
\* and tasks_healthcheck are `pass`: the maintenance fiber ends at once and a
\* pass of the heartbeat loop changes nothing. ack_context is a nullcontext.
aq_rest == <<brokerVars, published, reads, workerVars, historyVars, ser, opn>>

\* read_task = asyncio.create_task(self._broker.read()) completes
aq_read_task ==
    /\ aqw.pc = "wait"
    /\ aqw.read_task = "pending"
    /\ InMemoryBroker_read
    /\ aqw' = [aqw EXCEPT !.read_task = "done"]
    /\ UNCHANGED <<enqueued, aq_rest>>

\* _stop(send), the SIGTERM / SIGINT handler: set the flag and close send
aq_stop ==
    /\ ~aqw.stop_event
    /\ aqw.pc \in {"wait", "read", "send"}
    /\ aqw' = [aqw EXCEPT !.stop_event = TRUE, !.closed = TRUE]
    /\ UNCHANGED <<memVars, enqueued, aq_rest>>

\* asyncio.wait({stop_task, read_task}, return_when=ALL_COMPLETED) returns
ALL_COMPLETED == aqw.stop_event /\ aqw.read_task = "done"

\* after the wait: if not read_task.done(): read_task.cancel(); break
aq_run_wait ==
    /\ aqw.pc = "wait"
    /\ ALL_COMPLETED
    /\ aqw' = IF aqw.read_task # "done"
              THEN [aqw EXCEPT !.read_task = "cancelled", !.pc = "join",
                               !.stop_event = TRUE, !.closed = TRUE]
              ELSE [aqw EXCEPT !.pc = "read"]
    /\ UNCHANGED <<memVars, enqueued, aq_rest>>

\* for message in await self._broker.read(): the loop reads the broker again
aq_run_read ==
    /\ aqw.pc = "read"
    /\ InMemoryBroker_read
    /\ aqw' = [aqw EXCEPT !.messages = <<Head(mem_stream)>>, !.pc = "send"]
    /\ UNCHANGED <<enqueued, aq_rest>>

\* await send.send(message): ClosedResourceError on a closed stream, which
\* leaves the loop through _shutdown_tasks; otherwise a hand-off to the parked
\* executor, then sleep(0) and the test of the flag
aq_run_send ==
    /\ aqw.pc = "send"
    /\ aqw.closed \/ (aqw.epc = "recv" /\ aqw.chan = <<>>)
    /\ aqw' = IF aqw.closed
              THEN [aqw EXCEPT !.pc = "join_raised"]
              ELSE IF aqw.stop_event
              THEN [aqw EXCEPT !.chan = Append(@, Head(aqw.messages)),
                               !.messages = Tail(@), !.pc = "join", !.closed = TRUE]
              ELSE [aqw EXCEPT !.chan = Append(@, Head(aqw.messages)),
                               !.messages = Tail(@), !.pc = "wait",
                               !.read_task = "pending"]
    /\ UNCHANGED <<memVars, enqueued, aq_rest>>

\* _worker: the next item of `async for broker_task in recv` and its loop body
\* (the callable is invoked), or the end of the loop on a closed, empty channel
aq_worker ==
    /\ aqw.epc = "recv"
    /\ aqw.chan # <<>> \/ aqw.closed
    /\ aqw' = IF aqw.chan # <<>>
              THEN [aqw EXCEPT !.calls = Append(@, Head(aqw.chan)),
                               !.chan = Tail(@),
                               !.epc = IF Head(aqw.chan).task.task_name = "boom"
                                       THEN "failed" ELSE "recv"]
              ELSE [aqw EXCEPT !.epc = "done"]
    /\ UNCHANGED <<memVars, enqueued, aq_rest>>

\* _claim_pending_tasks: if stop.is_set(): return
aq_claim_pending_tasks_exit ==
    /\ aqw.hpc = "alive"
    /\ aqw.stop_event
    /\ aqw' = [aqw EXCEPT !.hpc = "done"]
    /\ UNCHANGED <<memVars, enqueued, aq_rest>>

\* _shutdown_tasks: asyncio.wait(tasks) returned; run() returns, or raises what
\* left the loop
aq_run_end ==
    /\ aqw.pc \in {"join", "join_raised"}
    /\ aqw.epc \in {"done", "failed"}
    /\ aqw.hpc = "done"
    /\ aqw' = [aqw EXCEPT !.pc = IF aqw.pc = "join" /\ aqw.epc = "done"
                                 THEN "returned" ELSE "raised"]
    /\ UNCHANGED <<memVars, enqueued, aq_rest>>

AqNext ==
    \/ \E name \in TaskNames : mem_enqueue(name)
    \/ aq_read_task
    \/ aq_stop
    \/ aq_run_wait
    \/ aq_run_read
    \/ aq_run_send
    \/ aq_worker
    \/ aq_claim_pending_tasks_exit
    \/ aq_run_end

\* every fiber of the worker keeps running; enqueue and the signal are up to
\* the environment
AqSpec ==
    /\ Init
    /\ [][AqNext]_vars
    /\ WF_vars(aq_read_task)
    /\ WF_vars(aq_run_wait)
    /\ WF_vars(aq_run_read)
    /\ WF_vars(aq_run_send)
    /\ WF_vars(aq_worker)
    /\ WF_vars(aq_claim_pending_tasks_exit)
    /\ WF_vars(aq_run_end)

\* ------------------------------------------- a serialization round trip
ser_rest == <<brokerVars, published, reads, memVars, enqueued, workerVars,
              historyVars, aqw, opn>>

\* a task instance about to be published, with the configuration's default
\* backend and registry
SerInputs ==
    {[pc |-> "start", task |-> t, default_backend |-> d, backends |-> r,
      record |-> NoRecord, result |-> NoResult] :
        t \in UNION {TaskInstances(definition) : definition \in TaskDefinitions},
        d \in BackendIds, r \in Registries}

SerInit ==
    /\ InitState
    /\ ser \in SerInputs
    /\ opn = Opened

\* the publisher: serialize_task(task, default_backend, serialization_backends)
ser_serialize_task ==
    /\ ser.pc = "start"
    /\ LET record == serialize_task(ser.task, ser.default_backend, ser.backends)
       IN ser' = IF serialize_task_raises(record)
                 THEN [ser EXCEPT !.pc = "raised"]
                 ELSE [ser EXCEPT !.pc = "serialized", !.record = record]
    /\ UNCHANGED ser_rest

\* the worker: deserialize_task(task_definition, task, serialization_backends)
ser_deserialize_task ==
    /\ ser.pc = "serialized"
    /\ ser' = [ser EXCEPT !.pc = "deserialized",
                          !.result = deserialize_task(ser.task.task, ser.record,
                                                      ser.backends)]
    /\ UNCHANGED ser_rest

SerNext ==
    \/ ser_serialize_task
    \/ ser_deserialize_task

SerSpec == SerInit /\ [][SerNext]_vars

\* ------------------------------- RedisBroker.__aenter__ of two instances
open_rest == <<stream, pel, published, reads, memVars, enqueued, workerVars,
               historyVars, aqw, ser>>

\* EXISTS stream_name: the key was made by an XADD or by XGROUP CREATE MKSTREAM
StreamExists == stream # <<>> \/ opn.mkstream

\* __aenter__ is called: an initialised instance returns at once, another one
\* sends its first call, redis.exists(stream_name)
aenter_begin(c) ==
    /\ opn.pc[c] = "idle"
    /\ opn.opens[c] < MaxOpens
    /\ opn' = IF opn.is_initialized[c]
              THEN [opn EXCEPT !.opens[c] = @ + 1]
              ELSE [opn EXCEPT !.opens[c] = @ + 1, !.pc[c] = "exists"]
    /\ UNCHANGED <<last_delivered, open_rest>>

\* stream_exists = await self._redis.exists(stream_name) != 0; without the
\* stream group_exists is False and the next call is xgroup_create
aenter_exists(c) ==
    /\ opn.pc[c] = "exists"
    /\ opn' = [opn EXCEPT !.stream_exists[c] = StreamExists,
                          !.group_exists[c] = FALSE,
                          !.broker_calls[c] = @ + 1,
                          !.pc[c] = IF StreamExists THEN "xinfo_groups"
                                    ELSE "xgroup_create"]
    /\ UNCHANGED <<last_delivered, open_rest>>

\* group_exists = group_name in (names of await self._redis.xinfo_groups(...))
aenter_xinfo_groups(c) ==
    /\ opn.pc[c] = "xinfo_groups"
    /\ opn' = [opn EXCEPT !.group_exists[c] = opn.group,
                          !.broker_calls[c] = @ + 1,
                          !.pc[c] = IF opn.group THEN "xgroup_createconsumer"
                                    ELSE "xgroup_create"]
    /\ UNCHANGED <<last_delivered, open_rest>>

\* await self._redis.xgroup_create(name, groupname, mkstream=True): XGROUP
\* CREATE answers BUSYGROUP when the group exists, which redis-py raises as
\* ResponseError out of __aenter__; otherwise the group (and the stream) is
\* created, at the id redis-py passes by default, "$": the last entry
aenter_xgroup_create(c) ==
    /\ opn.pc[c] = "xgroup_create"
    /\ IF opn.group
       THEN /\ opn' = [opn EXCEPT !.raised[c] = TRUE,
                                  !.broker_calls[c] = @ + 1,
                                  !.pc[c] = "idle"]
            /\ UNCHANGED last_delivered
       ELSE /\ opn' = [opn EXCEPT !.group = TRUE, !.mkstream = TRUE,
                                  !.broker_calls[c] = @ + 1,
                                  !.pc[c] = "xgroup_createconsumer"]
            /\ last_delivered' = Len(stream)
    /\ UNCHANGED open_rest

\* await self._redis.xgroup_createconsumer(stream, group, consumer_name);
\* self._is_initialized = True; return self
aenter_xgroup_createconsumer(c) ==
    /\ opn.pc[c] = "xgroup_createconsumer"
    /\ opn' = [opn EXCEPT !.consumers = @ \cup {c},
                          !.is_initialized[c] = TRUE,
                          !.broker_calls[c] = @ + 1,
                          !.pc[c] = "idle"]
    /\ UNCHANGED <<last_delivered, open_rest>>

OpenNext ==
    \/ \E name \in TaskNames : enqueue(name)
    \/ \E c \in Consumers : aenter_begin(c)
    \/ \E c \in Consumers : aenter_exists(c)
    \/ \E c \in Consumers : aenter_xinfo_groups(c)
    \/ \E c \in Consumers : aenter_xgroup_create(c)
    \/ \E c \in Consumers : aenter_xgroup_createconsumer(c)

\* two RedisBroker instances, one per consumer name, on a Redis where neither
\* the stream nor the group exists yet
OpenInit ==
    /\ InitState
    /\ ser = NoRoundTrip
    /\ opn = NotOpened

OpenSpec == OpenInit /\ [][OpenNext]_vars

\* ------------------------------------------------------------------ claims
Range(f) == {f[i] : i \in DOMAIN f}

\* entries handed to the fan-out channel or received by an executor so far
Forwarded == Range(chan) \cup Range(calls)

\* number of acks the broker received for entry n
AckCount(n) ==
    (IF n \in gate_acks THEN 1 ELSE 0) + (IF n \in scope_acks THEN 1 ELSE 0)
        + (IF n \in maint_acks THEN 1 ELSE 0)

\* C1: a BrokerTask whose requeue_count has reached max_delivery_attempts is
\* never sent onto the fan-out channel, so no executor receives one and the
\* callable is never invoked for it.
C1_PoisonNeverForwarded ==
    \A n \in Forwarded : TaskOf(n).requeue_count < MaxDeliveryAttempts

\* C2: a raising ack-scope body does not end run(): no fiber is cancelled and
\* run() does not terminate with the exception.
C2_FailureContained ==
    /\ dpc # "raised"
    /\ hpc # "cancelled"
    /\ mpc # "cancelled"
    /\ \A e \in Executors : epc[e] \notin {"cancelled", "cancelled_run", "cancelled_drain"}

\* C3: the broker receives at most one ack per stream entry, and no entry is
\* both ack-dropped by the gate and executed.
C3_OneAckPerEntry ==
    \A n \in 1..Len(stream) :
        /\ AckCount(n) <= 1
        /\ ~(n \in gate_acks /\ n \in Range(calls))

\* executors inside an ack scope (callable running, or xack in flight)
Executing == {e \in Executors : epc[e] \in {"run", "acked"}}

\* C4: when the body of an ack scope raises, no ack was emitted for the entry
\* and it is still pending; when it finishes normally the entry is acked, no
\* longer pending and not delivered again.
C4_ScopedAck ==
    /\ \A e \in Executors :
          /\ epc[e] = "failed" =>
                etask[e] \in DOMAIN pel /\ AckCount(etask[e]) = 0
          /\ epc[e] = "acked" =>
                etask[e] \notin DOMAIN pel /\ etask[e] \in scope_acks
    /\ \A n \in scope_acks :
          n \notin DOMAIN pel /\ n \notin Range(batch) /\ n \notin Range(chan)

\* the requeue_count values task `id` was invoked with, in order
InvokedCounts(id) ==
    LET mine(n) == TaskOf(n).id = id
        s == SelectSeq(calls, mine)
    IN [k \in 1..Len(s) |-> TaskOf(s[k]).requeue_count]

\* C5: a task whose callable always raises is invoked with requeue_count
\* 0, 1, ..., M-1 in that order and never more than M times: the delivery that
\* carries requeue_count = M is dropped without an invocation.
C5_BoundedRedelivery ==
    \A n \in Range(calls) :
        TaskOf(n).task_name = "boom" =>
            LET c == InvokedCounts(TaskOf(n).id)
            IN /\ Len(c) <= MaxDeliveryAttempts
               /\ \A k \in 1..Len(c) : c[k] = k - 1

\* C6: the tasks sent onto the fan-out channel and not yet finished never
\* exceed the concurrency, and every item a send has put on the channel has a
\* parked executor to take it.
C6_BoundedConcurrency ==
    /\ Cardinality(Executing) + Len(chan) <= Concurrency
    /\ Len(chan) <= Cardinality(WaitingReceivers)

\* all executors busy while the dispatcher holds a message it cannot send
C6_Witness ==
    /\ Cardinality(Executing) = Concurrency
    /\ dpc = "batch"
    /\ batch # <<>>
    /\ ~send_ready

\* C7: while the heartbeat fiber is alive (and healthcheck_interval is below
\* timeout_interval), the maintenance loop never claims an entry that an executor
\* is executing.
C7_NoReclaimWhileExecuting ==
    [][\A e \in Executors :
          (epc[e] = "run" /\ hpc = "alive" /\ HealthcheckInterval < TimeoutInterval)
              => (etask[e] \in Range(claimed') => etask[e] \in Range(claimed))]_vars

\* C9 as stated: no send completes once the shutdown flag is set.
C9_NoSendAfterStop == sends_after_stop = 0

\* C9 amended: once the shutdown flag is set the dispatcher starts no further
\* broker.read(), and the sends that complete after the flag are at most those
\* of one batch.
C9_NoReadAfterStop ==
    /\ [](sends_after_stop <= XreadCount)
    /\ [][(stop_event /\ dpc # "wait" /\ runs' = runs) => dpc' # "wait"]_vars

\* the flag was set in the middle of a batch and the rest of it was sent
C9_Witness ==
    /\ stop_event
    /\ sends_after_stop > 0
    /\ dpc = "join"

\* C10: a callable that is executing when the shutdown flag is set is never
\* cancelled: it runs to completion.
C10_DrainNotInterrupted ==
    \A e \in Executors : epc[e] # "cancelled_drain"

C11_NothingAliveAfterRun ==
    dpc = "returned" =>
        /\ FibersFinished
        /\ ~heartbeat_sleep_task_pending
        /\ ~maintenance_sleep_task_pending

\* C12: while the callable of a BrokerTask is running, the broker has received
\* no ack for that BrokerTask's entry: not earlier (the ack would precede the
\* execution) and not meanwhile (it would overlap it).
C12_NoAckBeforeCompletion ==
    \A e \in Executors : epc[e] = "run" => AckCount(etask[e]) = 0

\* number of invocations of the callable of task `id` by the asyncqueue worker
AqInvocations(id) ==
    Cardinality({k \in DOMAIN aqw.calls : aqw.calls[k].task.id = id})

\* C13: on the asyncqueue worker with the in-memory broker and one executor, a
\* task that was enqueued is eventually invoked exactly once unless the shutdown
\* flag is raised first, and once the flag is raised run() eventually ends.
C13_InvokedOnceThenStopEnds ==
    /\ \A id \in TaskIds :
          (enqueued >= id) ~> (aqw.stop_event \/ AqInvocations(id) = 1)
    /\ aqw.stop_event ~> (aqw.pc \in {"returned", "raised"})

\* some backend of the registry reports the value serialisable
ClaimedByRegistry(value) ==
    \E i \in DOMAIN ser.backends : serializable(ser.backends[i], value)

\* C14: for a task instance whose arguments are each serialisable by some
\* backend of the registry, deserialize_task of serialize_task returns exactly
\* the instance's positional values, in order, and its keyword mapping.
C14_RoundTrip ==
    (/\ ser.pc = "deserialized"
     /\ \A i \in DOMAIN ser.task.args : ClaimedByRegistry(ser.task.args[i])
     /\ \A key \in DOMAIN ser.task.kwargs : ClaimedByRegistry(ser.task.kwargs[key]))
        => ser.result = [raised |-> "no", args |-> ser.task.args,
                         kwargs |-> ser.task.kwargs]

\* the pair the registry's insertion order prescribes for a value
FirstClaimingPair(value) ==
    LET claiming == {i \in DOMAIN ser.backends : serializable(ser.backends[i], value)}
        first == CHOOSE i \in claiming : \A j \in claiming : i <= j
    IN IF claiming = {}
       THEN <<ser.default_backend, backend_serialize(ser.default_backend, value)>>
       ELSE <<ser.backends[first], backend_serialize(ser.backends[first], value)>>

\* C15: every pair of the record is the pair of the first backend, in the
\* registry's insertion order, that reports the value serialisable, and the
\* default backend's pair only when no backend of the registry does; the pair
\* of an argument depends on that argument alone.
C15_FirstBackendWins ==
    ser.pc = "serialized" =>
        /\ DOMAIN ser.record.args = DOMAIN ser.task.args
        /\ DOMAIN ser.record.kwargs = DOMAIN ser.task.kwargs
        /\ \A i \in DOMAIN ser.task.args :
              ser.record.args[i] = FirstClaimingPair(ser.task.args[i])
        /\ \A key \in DOMAIN ser.task.kwargs :
              ser.record.kwargs[key] = FirstClaimingPair(ser.task.kwargs[key])

\* two positional arguments went to different backends, one of them a value
\* that a later backend of the registry claims as well, and a keyword argument
\* was serialised too
C15_Witness ==
    /\ ser.pc = "serialized"
    /\ Len(ser.record.args) >= 2
    /\ ser.record.args[1][1] # ser.record.args[2][1]
    /\ \E i \in DOMAIN ser.task.args :
          Cardinality({j \in DOMAIN ser.backends :
                         serializable(ser.backends[j], ser.task.args[i])}) >= 2
    /\ DOMAIN ser.record.kwargs # {}

\* C20: deserialize_task of a record with more positional items than the
\* definition has arg_types either fails or returns every item.
C20_NoSilentTruncation ==
    (/\ ser.pc = "deserialized"
     /\ Len(ser.record.args) > Len(ser.task.task.arg_types))
        => \/ ser.result.raised # "no"
           \/ Len(ser.result.args) = Len(ser.record.args)

\* C16: the in-memory broker hands out BrokerTasks with meta = None, one per
\* read(), in the order of the enqueue calls and each exactly once: the records
\* read so far followed by those still buffered are the enqueued ones in order.
C16_InMemoryFifo ==
    /\ [](LET all == mem_reads \o mem_stream
          IN /\ \A i \in DOMAIN all : all[i].meta = NoMeta
             /\ \A i, j \in DOMAIN all : i < j => all[i].task.id < all[j].task.id
             /\ {all[i].task.id : i \in DOMAIN all}
                    \cup {published[i].id : i \in DOMAIN published} = 1..enqueued)
    /\ [][mem_reads' # mem_reads =>
            /\ mem_stream # <<>>
            /\ mem_reads' = Append(mem_reads, Head(mem_stream))
            /\ mem_stream' = Tail(mem_stream)]_vars

\* two records were read in order while a third is still buffered
C16_Witness ==
    /\ Len(mem_reads) >= 2
    /\ mem_stream # <<>>
    /\ mem_reads[1].task.id < mem_reads[2].task.id

\* the stream entries that carry the record with this id
EntriesOf(id) == {n \in 1..Len(stream) : TaskOf(n).id = id}

\* C17: a reclamation publishes one entry whose record is the reclaimed one
\* with requeue_count + 1 and then acks the stale entry: every entry with a
\* positive requeue_count has a stale entry of the same record, one count
\* lower, that the maintenance loop has acked or is about to ack; along the
\* stream the requeue_count of a record never decreases, and its highest value
\* is the number of replacement entries published for it.
C17_ReclamationRecord ==
    /\ [][(stream' # stream /\ enqueued' = enqueued) =>
            /\ Len(stream') = Len(stream) + 1
            /\ decode(stream'[Len(stream')]) =
                  [TaskOf(Head(claimed)) EXCEPT !.requeue_count = @ + 1]]_vars
    /\ [](\A n \in 1..Len(stream) :
            /\ TaskOf(n).requeue_count > 0 =>
                  \E m \in 1..(n - 1) :
                     /\ TaskOf(m) = [TaskOf(n) EXCEPT !.requeue_count = @ - 1]
                     /\ \/ m \in maint_acks
                        \/ mpc = "xack" /\ Head(claimed) = m
            /\ \A m \in 1..(n - 1) :
                  TaskOf(m).id = TaskOf(n).id =>
                      TaskOf(m).requeue_count <= TaskOf(n).requeue_count
            /\ Cardinality({k \in EntriesOf(TaskOf(n).id) : TaskOf(k).requeue_count > 0})
                  >= TaskOf(n).requeue_count
            /\ \E k \in EntriesOf(TaskOf(n).id) :
                  TaskOf(k).requeue_count =
                     Cardinality({j \in EntriesOf(TaskOf(n).id) :
                                    TaskOf(j).requeue_count > 0}))

\* C18: at every call of tasks_healthcheck by the heartbeat fiber, each
\* BrokerTask in active_tasks is held by an executor that is inside its ack
\* scope, and the broker has received no ack for its entry other than the one
\* that executor's ack scope is just sending on its exit.
C18_HealthcheckOnlyInFlight ==
    [][(hpc = "alive" /\ hb_timer = HealthcheckInterval /\ hb_timer' = 0) =>
          \A n \in ActiveValues :
             /\ n \notin gate_acks
             /\ n \notin maint_acks
             /\ \E e \in Executors :
                   /\ etask[e] = n
                   /\ \/ epc[e] = "run" /\ n \notin scope_acks
                      \/ epc[e] = "acked"]_vars

\* C19: the dispatch loop never drops a task it has read: when run() has left
\* the loop, no BrokerTask of a completed read is left unsent, also when the
\* flag was raised while the batch was being handled.
C19_NoReadTaskDropped ==
    dpc \in {"join", "returned", "raised"} => batch = <<>>

\* an entry the group has not acked: never delivered, or pending
Unacked(n) == n > last_delivered \/ n \in DOMAIN pel

\* the task reached ACKED (an ack scope of one of its deliveries exited
\* normally) or DROPPED (the delivery-count gate acked one of its deliveries)
Terminal(id) == \E n \in EntriesOf(id) : n \in gate_acks \cup scope_acks

\* C21: every enqueued task that is neither ACKED nor DROPPED has at least one
\* un-acked stream entry (undelivered or pending), and when the maintenance
\* loop acks a stale entry the replacement entry is already in the stream.
C21_LiveTaskHasEntry ==
    /\ [](\A id \in 1..enqueued :
            ~Terminal(id) => \E n \in EntriesOf(id) : Unacked(n))
    /\ [][\A n \in maint_acks' \ maint_acks :
            \E m \in (n + 1)..Len(stream) : TaskOf(m) = requeued(TaskOf(n))]_vars

\* a stale entry was acked by the maintenance loop and the task, not yet
\* terminal, lives on in its replacement alone
C21_Witness ==
    \E n \in maint_acks :
        /\ ~Terminal(TaskOf(n).id)
        /\ Cardinality({m \in EntriesOf(TaskOf(n).id) : Unacked(m)}) = 1

\* entries the worker has read whose delivery is unfinished: waiting in the
\* dispatcher's batch, on the fan-out channel, or in an executor whose
\* callable is running
Unfinished ==
    Range(batch) \cup Range(chan)
        \cup {etask[e] : e \in {x \in Executors : epc[x] = "run"}}

\* C22: with healthcheck_interval < timeout_interval and the worker alive, no
\* two executors run the callable of the same record.id at the same time, and
\* the maintenance loop never claims an entry the worker has read and not
\* finished (waiting in the batch, on the channel, or executing).
C22_NoDoubleExecution ==
    /\ [](\A e1, e2 \in Executors :
            (e1 # e2 /\ epc[e1] = "run" /\ epc[e2] = "run")
                => TaskOf(etask[e1]).id # TaskOf(etask[e2]).id)
    /\ [][(HealthcheckInterval < TimeoutInterval /\ dpc \notin {"returned", "raised"})
            => \A n \in Unfinished :
                  n \in Range(claimed') => n \in Range(claimed)]_vars

\* the record ids executors hold between receipt and removal
HeldIds == {TaskOf(etask[e]).id : e \in Executing}

\* C23: active_tasks maps the record.id of every executor inside an ack scope
\* to the very BrokerTask (broker entry) that executor holds, and holds no
\* record.id that no executor holds, also after an ack scope exited with an
\* exception.
C23_ActiveTasksExact ==
    /\ \A e \in Executing : active_tasks[TaskOf(etask[e]).id] = etask[e]
    /\ \A id \in TaskIds : id \notin HeldIds => active_tasks[id] = 0

\* C24: when two RedisBroker instances with distinct consumer names are
\* entered concurrently on the same stream and group, no __aenter__ raises,
\* an instance that is initialised has the group in place and its consumer
\* registered, and entering an initialised instance makes no broker call.
C24_ConcurrentOpen ==
    /\ [](\A c \in Consumers :
            /\ ~opn.raised[c]
            /\ opn.is_initialized[c] => (opn.group /\ c \in opn.consumers))
    /\ [][\A c \in Consumers :
            opn.is_initialized[c] => opn'.broker_calls[c] = opn.broker_calls[c]]_vars

====
